---- MODULE Spec2Model ----
(***************************************************************************)
(* MovieLensApp (src/app.js) and the two two-tower models                  *)
(* (src/unnamed/part_000: BasicTwoTowerModel, DeepTwoTowerModel).          *)
(*                                                                         *)
(* Numbers.  An embedding row and a dense-layer weight tensor are each one *)
(* integer, in units of the learning rate; a loss value and a gradient     *)
(* entry are the outcome of a float32 softmax over randomly initialised    *)
(* tables, so a step draws them from a small set (StepNumerics).  What is  *)
(* kept exactly is the structure the code fixes: which rows a gather       *)
(* reads, which rows its gradient reaches, the Adam recurrences on the     *)
(* two moments, the order of the checks that throw, and which variables an *)
(* optimizer differentiates.                                               *)
(*                                                                         *)
(* Scheduling.  Every `await` of train() and loadData() is a point where    *)
(* the host may call train() or loadData() again; a handler runs from one  *)
(* await to the next without interruption (JavaScript run-to-completion).  *)
(***************************************************************************)
EXTENDS Integers, Sequences, FiniteSets, TLC

\* ------------------------------------------------------------------ bounds
MaxInteractions == 4
MaxBatchSize == 3
MaxEpochs == 2
MaxCalls == 3
MaxTableRows == 2
MaxBatchLen == 2
MaxSteps == 2
MaxChunk == 3

\* ------------------------------------------------------- program constants
NumGenres == 19
Beta1Num == 9
Beta1Den == 10
Beta2Num == 999
Beta2Den == 1000
Undefined == -1

VARIABLES
  \* MovieLensApp fields (src/app.js constructor)
  config, interactions, userMap, itemMap, reverseItemMap, genreMap, genreList,
  basicModel, deepModel, basicLossHistory, deepLossHistory, isTraining,
  \* the train() invocations made so far: each one's position or outcome
  calls,
  \* the local variables of the train() invocation that is suspended at an await
  run,
  \* loadData(): position of the invocation in flight
  loadPc,
  \* TensorFlow.js engine: registered variables by name, and the backend in use
  registeredVariables, backend,
  \* what the last direct call of a model method returned or threw
  lastCall

appVars == <<config, interactions, userMap, itemMap, reverseItemMap, genreMap,
             genreList, basicLossHistory, deepLossHistory, isTraining, calls,
             run, loadPc>>
dataVars == <<config, interactions, userMap, itemMap, reverseItemMap, genreMap,
              genreList, loadPc>>
modelVars == <<basicModel, deepModel, registeredVariables>>
vars == <<appVars, modelVars, backend, lastCall>>

\* ----------------------------------------------------------------- helpers
Min(a, b) == IF a <= b THEN a ELSE b

\* Math.ceil(a / b) for a >= 0, b >= 1
Floor(a, b) == a \div b

\* Math.ceil(a / b)
Ceil(a, b) == (a + b - 1) \div b

\* division rounding toward zero (fixed-point arithmetic of the moments)
Trunc(a, b) == IF a >= 0 THEN a \div b ELSE -((-a) \div b)

Sgn(x) == IF x > 0 THEN 1 ELSE IF x < 0 THEN -1 ELSE 0

SeqMap(f(_), s) == [i \in 1..Len(s) |-> f(s[i])]

\* Array.prototype.slice(start, end), 0-based, end exclusive
Slice(s, start, end) == SubSeq(s, start + 1, end)

EmptyMap == [x \in {} |-> 0]

\* Map.prototype.get: undefined for a missing key
MapGet(m, k) == IF k \in DOMAIN m THEN m[k] ELSE Undefined

\* Array(n).fill(0)
Zeros(n) == [i \in 1..n |-> 0]

\* ------------------------------------------------- JavaScript values and tf
\* A JavaScript array, a tf.Tensor and undefined are told apart by `kind`:
\* an array has a length property, a tf.Tensor has shape and size but none.
JsArray(s) == [kind |-> "array", vals |-> s]

JsUndefined == [kind |-> "undefined", vals |-> << >>]

\* new Int32Array(values): undefined (NaN) converts to 0
ToInt32(x) == IF x = Undefined THEN 0 ELSE x

\* tf.tensor1d(values, 'int32')
Tensor1d(a) == [kind |-> "tensor", vals |-> [i \in 1..Len(a.vals) |-> ToInt32(a.vals[i])]]

\* x.length as JavaScript evaluates it
LengthOf(x) == IF x.kind = "array" THEN Len(x.vals) ELSE Undefined

\* the tf backend decides what an out-of-range gather index does: the cpu
\* kernel asserts the index is in [0, N-1]; the webgl kernel reads a zero row
Backends == {"cpu", "webgl"}

GatherInRange(table, idx) == \A i \in 1..Len(idx.vals) : ToInt32(idx.vals[i]) \in DOMAIN table

GatherThrows(table, idx) == backend = "cpu" /\ ~GatherInRange(table, idx)

\* tf.gather(table, indices): one row per index
Gather(table, idx) ==
  [i \in 1..Len(idx.vals) |->
     IF ToInt32(idx.vals[i]) \in DOMAIN table THEN table[ToInt32(idx.vals[i])] ELSE 0]

\* a gather whose gradient reaches every row of the table
GatherGradAllRows(table, idx, g) == [r \in DOMAIN table |-> g]

\* gradient of tf.gather with respect to the table: dense, the upstream
\* gradient summed into the gathered rows, zero in every other row
GatherGrad(table, idx, g) ==
  [r \in DOMAIN table |->
     IF \E i \in 1..Len(idx.vals) : ToInt32(idx.vals[i]) = r THEN g ELSE 0]

\* tf.tensor2d(values, [rows, cols]) succeeds when values is given, both
\* dimensions are non-negative integers and the values have that shape
Tensor2dOk(values, rows, cols) ==
  /\ values.kind = "array"
  /\ rows # Undefined /\ rows >= 0
  /\ cols # Undefined /\ cols >= 0
  /\ Len(values.vals) = rows
  /\ \A i \in 1..Len(values.vals) : Len(values.vals[i]) = cols

RECURSIVE SumSeq(_)
SumSeq(s) == IF s = << >> THEN 0 ELSE s[1] + SumSeq(Tail(s))

\* tf.oneHot(indices, depth) rejects depth < 2
OneHotOk(depth) == depth >= 2

\* tf.losses.softmaxCrossEntropy(labels [b, b], logits [b, c]) asserts equal shapes
ShapesMatch(b, c) == b = c

\* tf.variable(value, true, name) throws when the name is already registered
CanRegister(reg, name) == name \notin DOMAIN reg

\* tf.randomNormal: the rows differ from each other and from run to run
RandomRows(n, seed) == [r \in 0..(n - 1) |-> seed + r + 1]

\* a dense layer's weights are created by its first apply(): the kernel by
\* glorotNormal, the bias zero
GlorotKernel(seed) == [r \in {0} |-> seed + 1]

ZeroBias == [r \in {0} |-> 0]

LayerBuilt(reg, layer) == layer.kernel \in DOMAIN reg

\* a layer that draws its kernel again on every apply()
BuildLayerAgain(reg, layer, seed) ==
  [name \in (DOMAIN reg) \cup {layer.kernel, layer.bias} |->
     IF name = layer.kernel
     THEN IF LayerBuilt(reg, layer) THEN [r \in {0} |-> reg[name][0] + 1]
          ELSE GlorotKernel(seed)
     ELSE IF name = layer.bias THEN ZeroBias ELSE reg[name]]

BuildLayer(reg, layer, seed) ==
  IF LayerBuilt(reg, layer) THEN reg
  ELSE reg @@ (layer.kernel :> GlorotKernel(seed)) @@ (layer.bias :> ZeroBias)

\* layer.apply(x) on built weights, one output per input row
DenseApply(reg, layer, xs, relu) ==
  [i \in 1..Len(xs) |->
     LET y == reg[layer.kernel][0] * xs[i] + reg[layer.bias][0]
     IN IF relu /\ y < 0 THEN 0 ELSE y]

\* ------------------------------------------------------------ tf.train.adam
NewOptimizer == [iterations |-> 0, moments |-> EmptyMap]

ZeroMoments(value) == [m |-> [r \in DOMAIN value |-> 0], v |-> [r \in DOMAIN value |-> 0]]

NewFirstMoment(m, g) == Trunc(Beta1Num * m, Beta1Den) + Trunc((Beta1Den - Beta1Num) * g, Beta1Den)

NewSecondMoment(v, g) == Trunc(Beta2Num * v, Beta2Den) + Trunc((Beta2Den - Beta2Num) * g * g, Beta2Den)

\* value - lr * mHat / (sqrt(vHat) + eps): the step has the sign of the first
\* moment and is zero exactly when the first moment is
NewValue(value, m) == value - Sgn(m)

MomentsOf(opt, name, value) ==
  IF name \in DOMAIN opt.moments THEN opt.moments[name] ELSE ZeroMoments(value)

AdamMoments(mom, grad) ==
  [m |-> [r \in DOMAIN grad |-> NewFirstMoment(mom.m[r], grad[r])],
   v |-> [r \in DOMAIN grad |-> NewSecondMoment(mom.v[r], grad[r])]]

\* optimizer.applyGradients(grads): grads maps the names of the variables
\* that received a gradient to it; every element of each is updated
ApplyGradientsOpt(opt, reg, grads) ==
  [iterations |-> opt.iterations + 1,
   moments |->
     [name \in (DOMAIN opt.moments) \cup (DOMAIN grads) |->
        IF name \in DOMAIN grads
        THEN AdamMoments(MomentsOf(opt, name, reg[name]), grads[name])
        ELSE opt.moments[name]]]

ApplyGradientsReg(opt, reg, grads) ==
  [name \in DOMAIN reg |->
     IF name \in DOMAIN grads
     THEN LET mom == AdamMoments(MomentsOf(opt, name, reg[name]), grads[name])
          IN [r \in DOMAIN reg[name] |-> NewValue(reg[name][r], mom.m[r])]
     ELSE reg[name]]

\* what the float computation of one step yields: the loss value and the
\* gradient reaching the gathered user rows and item rows
StepNumerics == {[loss |-> 2, user |-> 100, item |-> -100],
                 [loss |-> 1, user |-> 0, item |-> 0]}

NoNumerics == [loss |-> 0, user |-> 0, item |-> 0]

\* the numerics a step can yield: none when its loss closure throws
NumericsOf(probe) == IF probe.ok THEN StepNumerics ELSE {NoNumerics}

\* ------------------------------------------------------- BasicTwoTowerModel
NullModel == [isNull |-> TRUE]

\* constructor: two named variables, then the optimizer
BasicCtor(reg, numUsers, numItems, seed) ==
  IF ~CanRegister(reg, "basic_user_embeddings")
  THEN [ok |-> FALSE, reg |-> reg, model |-> NullModel]
  ELSE LET r1 == reg @@ ("basic_user_embeddings" :> RandomRows(numUsers, seed))
       IN IF ~CanRegister(r1, "basic_item_embeddings")
          THEN [ok |-> FALSE, reg |-> r1, model |-> NullModel]
          ELSE [ok |-> TRUE,
                reg |-> r1 @@ ("basic_item_embeddings" :> RandomRows(numItems, seed + 1)),
                model |-> [isNull |-> FALSE, numUsers |-> numUsers, numItems |-> numItems,
                           userEmbeddings |-> "basic_user_embeddings",
                           itemEmbeddings |-> "basic_item_embeddings",
                           optimizer |-> NewOptimizer]]

BasicUserForward(model, reg, idx) == Gather(reg[model.userEmbeddings], idx)

BasicItemForward(model, reg, idx) == Gather(reg[model.itemEmbeddings], idx)

\* the first call inside the loss closure that throws, or "none"
BasicLossError(model, reg, userIndices, userTensor, itemTensor) ==
  IF GatherThrows(reg[model.userEmbeddings], userTensor) THEN "gather"
  ELSE IF GatherThrows(reg[model.itemEmbeddings], itemTensor) THEN "gather"
  ELSE IF ~OneHotOk(LengthOf(userIndices)) THEN "oneHot"
  ELSE IF ~ShapesMatch(Len(userTensor.vals), Len(itemTensor.vals)) THEN "softmaxCrossEntropy"
  ELSE "none"

\* trainStep(userIndices, itemIndices): the loss closure runs inside
\* computeGradients; applyGradients runs only if it returned
BasicTrainStep(model, reg, userIndices, itemIndices, num) ==
  LET userTensor == Tensor1d(userIndices)
      itemTensor == Tensor1d(itemIndices)
      error == BasicLossError(model, reg, userIndices, userTensor, itemTensor)
      grads == (model.userEmbeddings :>
                  GatherGrad(reg[model.userEmbeddings], userTensor, num.user))
               @@ (model.itemEmbeddings :>
                  GatherGrad(reg[model.itemEmbeddings], itemTensor, num.item))
  IN IF error # "none"
     THEN [ok |-> FALSE, error |-> error, value |-> 0, reg |-> reg,
           optimizer |-> model.optimizer]
     ELSE [ok |-> TRUE, error |-> "none", value |-> num.loss,
           reg |-> ApplyGradientsReg(model.optimizer, reg, grads),
           optimizer |-> ApplyGradientsOpt(model.optimizer, reg, grads)]

\* getUserEmbedding(userIndex): userForward([userIndex]).squeeze()
BasicGetUserEmbedding(model, reg, userIndex) ==
  LET idx == JsArray(<<userIndex>>)
  IN IF GatherThrows(reg[model.userEmbeddings], idx)
     THEN [ok |-> FALSE, error |-> "gather", value |-> 0, reg |-> reg]
     ELSE [ok |-> TRUE, error |-> "none",
           value |-> BasicUserForward(model, reg, idx)[1], reg |-> reg]

\* getScoresForAllItems(userEmbedding): tf.dot(itemEmbeddings, userEmbedding)
BasicGetScoresForAllItems(model, reg, userEmbedding) ==
  [ok |-> TRUE, error |-> "none", reg |-> reg,
   value |-> [k \in 1..Cardinality(DOMAIN reg[model.itemEmbeddings]) |->
                reg[model.itemEmbeddings][k - 1] * userEmbedding]]

\* -------------------------------------------------------- DeepTwoTowerModel
Layer(kernel, bias) == [kernel |-> kernel, bias |-> bias]

DeepCtor(reg, numUsers, numItems, numGenres, seed) ==
  IF ~CanRegister(reg, "deep_user_embeddings")
  THEN [ok |-> FALSE, reg |-> reg, model |-> NullModel]
  ELSE LET r1 == reg @@ ("deep_user_embeddings" :> RandomRows(numUsers, seed))
       IN IF ~CanRegister(r1, "deep_item_embeddings")
          THEN [ok |-> FALSE, reg |-> r1, model |-> NullModel]
          ELSE [ok |-> TRUE,
                reg |-> r1 @@ ("deep_item_embeddings" :> RandomRows(numItems, seed + 1)),
                model |-> [isNull |-> FALSE, numUsers |-> numUsers, numItems |-> numItems,
                           numGenres |-> numGenres, seed |-> seed,
                           userEmbeddings |-> "deep_user_embeddings",
                           itemEmbeddings |-> "deep_item_embeddings",
                           userHiddenLayer |-> Layer("dense_Dense1/kernel", "dense_Dense1/bias"),
                           userOutputLayer |-> Layer("dense_Dense2/kernel", "dense_Dense2/bias"),
                           itemHiddenLayer |-> Layer("dense_Dense3/kernel", "dense_Dense3/bias"),
                           itemOutputLayer |-> Layer("dense_Dense4/kernel", "dense_Dense4/bias"),
                           optimizer |-> NewOptimizer]]

\* userForward(userIndices): gather, hidden layer (relu), output layer
DeepUserForward(model, reg, idx) ==
  IF GatherThrows(reg[model.userEmbeddings], idx)
  THEN [ok |-> FALSE, error |-> "gather", reg |-> reg, vals |-> << >>]
  ELSE LET r2 == BuildLayer(BuildLayer(reg, model.userHiddenLayer, model.seed),
                            model.userOutputLayer, model.seed + 1)
           userEmbs == Gather(reg[model.userEmbeddings], idx)
           hidden == DenseApply(r2, model.userHiddenLayer, userEmbs, TRUE)
       IN [ok |-> TRUE, error |-> "none", reg |-> r2,
           vals |-> DenseApply(r2, model.userOutputLayer, hidden, FALSE)]

\* itemForward(itemIndices, genreFeatures): gather, then
\* tf.tensor2d(genreFeatures, [itemIndices.length, numGenres]), concat,
\* hidden layer (relu), output layer
DeepItemForward(model, reg, idx, genreFeatures) ==
  IF GatherThrows(reg[model.itemEmbeddings], idx)
  THEN [ok |-> FALSE, error |-> "gather", reg |-> reg, vals |-> << >>]
  ELSE IF ~Tensor2dOk(genreFeatures, LengthOf(idx), model.numGenres)
  THEN [ok |-> FALSE, error |-> "tensor2d", reg |-> reg, vals |-> << >>]
  ELSE LET r2 == BuildLayer(BuildLayer(reg, model.itemHiddenLayer, model.seed + 2),
                            model.itemOutputLayer, model.seed + 3)
           itemEmbs == Gather(reg[model.itemEmbeddings], idx)
           combined == [i \in 1..Len(itemEmbs) |->
                          itemEmbs[i] + SumSeq(genreFeatures.vals[i])]
           hidden == DenseApply(r2, model.itemHiddenLayer, combined, TRUE)
       IN [ok |-> TRUE, error |-> "none", reg |-> r2,
           vals |-> DenseApply(r2, model.itemOutputLayer, hidden, FALSE)]

\* the gradients the deep loss yields: both tables through the gather, and
\* the weights of the four layers
DeepGrads(model, reg, userTensor, itemTensor, num) ==
  (model.userEmbeddings :> GatherGrad(reg[model.userEmbeddings], userTensor, num.user))
  @@ (model.itemEmbeddings :> GatherGrad(reg[model.itemEmbeddings], itemTensor, num.item))
  @@ (model.userHiddenLayer.kernel :> [r \in {0} |-> num.user])
  @@ (model.userHiddenLayer.bias :> [r \in {0} |-> num.user])
  @@ (model.userOutputLayer.kernel :> [r \in {0} |-> num.user])
  @@ (model.userOutputLayer.bias :> [r \in {0} |-> num.user])
  @@ (model.itemHiddenLayer.kernel :> [r \in {0} |-> num.item])
  @@ (model.itemHiddenLayer.bias :> [r \in {0} |-> num.item])
  @@ (model.itemOutputLayer.kernel :> [r \in {0} |-> num.item])
  @@ (model.itemOutputLayer.bias :> [r \in {0} |-> num.item])

\* trainStep(userIndices, itemIndices, genreFeatures).  computeGradients
\* differentiates the variables registered when it is called (varList), then
\* runs the loss closure, which passes the item *tensor* to itemForward
DeepTrainStep(model, reg, userIndices, itemIndices, genreFeatures, num) ==
  LET userTensor == Tensor1d(userIndices)
      itemTensor == Tensor1d(itemIndices)
      varList == DOMAIN reg
      uf == DeepUserForward(model, reg, userTensor)
      itf == DeepItemForward(model, uf.reg, itemTensor, genreFeatures)
      all == DeepGrads(model, itf.reg, userTensor, itemTensor, num)
      grads == [name \in (DOMAIN all) \cap varList |-> all[name]]
      failed(error, r) == [ok |-> FALSE, error |-> error, value |-> 0, reg |-> r,
                           optimizer |-> model.optimizer]
  IN IF ~uf.ok THEN failed(uf.error, uf.reg)
     ELSE IF ~itf.ok THEN failed(itf.error, itf.reg)
     ELSE IF ~OneHotOk(LengthOf(userIndices)) THEN failed("oneHot", itf.reg)
     ELSE IF ~ShapesMatch(Len(userTensor.vals), Len(itemTensor.vals))
     THEN failed("softmaxCrossEntropy", itf.reg)
     ELSE [ok |-> TRUE, error |-> "none", value |-> num.loss,
           reg |-> ApplyGradientsReg(model.optimizer, itf.reg, grads),
           optimizer |-> ApplyGradientsOpt(model.optimizer, itf.reg, grads)]

\* getUserEmbedding(userIndex): userForward([userIndex]).squeeze()
DeepGetUserEmbedding(model, reg, userIndex) ==
  LET uf == DeepUserForward(model, reg, JsArray(<<userIndex>>))
  IN IF ~uf.ok THEN [ok |-> FALSE, error |-> uf.error, value |-> 0, reg |-> uf.reg]
     ELSE [ok |-> TRUE, error |-> "none", value |-> uf.vals[1], reg |-> uf.reg]

\* the loop of getScoresForAllItems from chunk i on: each chunk's indices
\* start..end-1 with all-zero genre rows go through itemForward, and its
\* scores are appended to allScores
RECURSIVE DeepScoreChunks(_, _, _, _, _, _)
DeepScoreChunks(model, reg, userEmbedding, batchSize, i, allScores) ==
  LET numBatches == Ceil(model.numItems, batchSize)
      start == i * batchSize
      end == Min(start + batchSize, model.numItems)
      batchIndices == JsArray([j \in 1..(end - start) |-> start + j - 1])
      batchGenreFeatures == JsArray([j \in 1..(end - start) |-> Zeros(model.numGenres)])
      itf == DeepItemForward(model, reg, batchIndices, batchGenreFeatures)
      batchScores == [j \in 1..Len(itf.vals) |-> itf.vals[j] * userEmbedding]
  IN IF i >= numBatches
     THEN [ok |-> TRUE, error |-> "none", value |-> allScores, reg |-> reg]
     ELSE IF ~itf.ok
     THEN [ok |-> FALSE, error |-> itf.error, value |-> << >>, reg |-> itf.reg]
     ELSE DeepScoreChunks(model, itf.reg, userEmbedding, batchSize, i + 1,
                          allScores \o batchScores)

\* getScoresForAllItems(userEmbedding); batchSize is the chunk size, 100 in
\* the source
DeepGetScoresForAllItems(model, reg, userEmbedding, batchSize) ==
  DeepScoreChunks(model, reg, userEmbedding, batchSize, 0, << >>)

\* ------------------------------------------------------------- MovieLensApp
\* data/u.data, already parsed: line i is a (userId, itemId) rating
UDataLine(i) == [userId |-> ((i - 1) % 3) + 1, itemId |-> 10 * ((((i - 1) \div 2) % 3) + 1)]

UDataFile == [i \in 1..MaxInteractions |-> UDataLine(i)]

\* data/u.item, already parsed: the 19 genre flags of the items it lists
\* (item 20 is rated but not listed)
GenreFlags(k) == [g \in 1..NumGenres |-> IF g = k THEN 1 ELSE 0]

UItemFile == [itemId \in {10, 30} |-> GenreFlags(itemId \div 10)]

GenreNames == [g \in 1..NumGenres |-> g]

Seeds == {0, 1}

\* Array.from(new Set(ids)): the distinct ids in order of first occurrence
RECURSIVE DistinctSeq(_)
DistinctSeq(s) ==
  IF s = << >> THEN << >>
  ELSE LET d == DistinctSeq(SubSeq(s, 1, Len(s) - 1))
           x == s[Len(s)]
       IN IF \E i \in 1..Len(d) : d[i] = x THEN d ELSE Append(d, x)

\* a mapping that numbers the ids from 1
SetIndexesFromOne(map, ids) ==
  [id \in (DOMAIN map) \cup {ids[i] : i \in 1..Len(ids)} |->
     IF \E i \in 1..Len(ids) : ids[i] = id
     THEN CHOOSE i \in 1..Len(ids) : ids[i] = id
     ELSE map[id]]

\* ids.forEach((id, index) => map.set(id, index))
SetIndexes(map, ids) ==
  [id \in (DOMAIN map) \cup {ids[i] : i \in 1..Len(ids)} |->
     IF \E i \in 1..Len(ids) : ids[i] = id
     THEN (CHOOSE i \in 1..Len(ids) : ids[i] = id) - 1
     ELSE map[id]]

\* ids.forEach((id, index) => reverse.set(index, id))
SetReverse(map, ids) ==
  [index \in (DOMAIN map) \cup {i - 1 : i \in 1..Len(ids)} |->
     IF index + 1 \in 1..Len(ids) THEN ids[index + 1] ELSE map[index]]

UserIdsOf(inter) == DistinctSeq([i \in 1..Len(inter) |-> inter[i].userId])

ItemIdsOf(inter) == DistinctSeq([i \in 1..Len(inter) |-> inter[i].itemId])

\* loadData, first part: this.interactions = lines.slice(0, maxInteractions)
LoadDataStart ==
  /\ loadPc \in {"idle", "done", "error"}
  /\ interactions' = Slice(UDataFile, 0, Min(config.maxInteractions, Len(UDataFile)))
  /\ loadPc' = "items"
  /\ UNCHANGED <<config, userMap, itemMap, reverseItemMap, genreMap, genreList,
                 basicLossHistory, deepLossHistory, isTraining, calls, run,
                 modelVars, backend, lastCall>>

\* loadData, second part: genre list, genre map, then createMappings()
LoadDataItems ==
  /\ loadPc = "items"
  /\ genreList' = GenreNames
  /\ genreMap' = [itemId \in (DOMAIN genreMap) \cup (DOMAIN UItemFile) |->
                    IF itemId \in DOMAIN UItemFile THEN UItemFile[itemId] ELSE genreMap[itemId]]
  /\ userMap' = SetIndexes(userMap, UserIdsOf(interactions))
  /\ itemMap' = SetIndexes(itemMap, ItemIdsOf(interactions))
  /\ reverseItemMap' = SetReverse(reverseItemMap, ItemIdsOf(interactions))
  /\ loadPc' = "done"
  /\ UNCHANGED <<config, interactions, basicLossHistory, deepLossHistory,
                 isTraining, calls, run, modelVars, backend, lastCall>>

\* loadData: fetching data/u.item fails, the catch block reports it
LoadDataError ==
  /\ loadPc = "items"
  /\ loadPc' = "error"
  /\ UNCHANGED <<config, interactions, userMap, itemMap, reverseItemMap, genreMap,
                 genreList, basicLossHistory, deepLossHistory, isTraining, calls,
                 run, modelVars, backend, lastCall>>

\* --------------------------------------------------------------- train()
\* a train() invocation: where it is suspended, or how it ended; error and
\* at name the call that threw and the step it was thrown from
Call(pc, error, at) == [pc |-> pc, error |-> error, at |-> at]

Awaits == {"awaitBasic", "awaitDeep", "awaitTimeout"}

NoRun == [userIndices |-> << >>, itemIndices |-> << >>, numBatches |-> 0,
          epoch |-> 0, batch |-> 0, start |-> 0, end |-> 0,
          batchUsers |-> << >>, batchItems |-> << >>, batchGenreFeatures |-> << >>,
          basicLoss |-> 0, deepLoss |-> 0, step |-> [model |-> "none", ok |-> TRUE]]

\* how the promise of a trainStep call settled
Settled(model, res) == [model |-> model, ok |-> res.ok]

\* a train() with no guard at all
TrainGuardOff(flag) == FALSE

\* if (this.isTraining) return;
TrainGuard(flag) == flag

\* a driver that swallows the rejection and carries on
NeverRethrows(res) == FALSE

\* await of a promise that was rejected throws: the exception leaves train()
Rethrows(res) == ~res.ok

\* this.genreMap.get(itemId) || Array(this.genreList.length).fill(0)
GenreOrZeros(itemId) ==
  IF itemId \in DOMAIN genreMap THEN genreMap[itemId] ELSE Zeros(Len(genreList))

\* the genre row of a batch item, looked up by its raw id
GenreFeaturesOf(itemIdx) == GenreOrZeros(MapGet(reverseItemMap, itemIdx))

\* start, end and the three slices of batch number `batch`
FormBatch(r, epoch, batch) ==
  LET start == batch * config.batchSize
      end == Min(start + config.batchSize, Len(r.userIndices))
      batchItems == Slice(r.itemIndices, start, end)
  IN [r EXCEPT !.epoch = epoch, !.batch = batch, !.start = start, !.end = end,
               !.batchUsers = Slice(r.userIndices, start, end),
               !.batchItems = batchItems,
               !.batchGenreFeatures = SeqMap(GenreFeaturesOf, batchItems)]

\* one pass of the loop body up to the first await: the batch is formed and
\* basicModel.trainStep is called on it
TrainBatch(r, epoch, batch, model, reg, num) ==
  LET r1 == FormBatch(r, epoch, batch)
      res == BasicTrainStep(model, reg, JsArray(r1.batchUsers), JsArray(r1.batchItems), num)
  IN [run |-> [r1 EXCEPT !.basicLoss = res.value, !.step = Settled("basic", res)],
      res |-> res]

\* train() is called: the guard, the reset, the two constructors, the index
\* lists, and the loop up to its first await
TrainInvoke(seed, num) ==
  /\ Len(calls) < MaxCalls
  /\ IF TrainGuard(isTraining)
     THEN /\ calls' = Append(calls, Call("returned", "none", "none"))
          /\ UNCHANGED <<dataVars, basicLossHistory, deepLossHistory, isTraining, run,
                         modelVars, backend, lastCall>>
     ELSE LET numUsers == Cardinality(DOMAIN userMap)
              numItems == Cardinality(DOMAIN itemMap)
              bc == BasicCtor(registeredVariables, numUsers, numItems, seed)
              dc == DeepCtor(bc.reg, numUsers, numItems, Len(genreList), seed)
              userIndices == [i \in 1..Len(interactions) |-> MapGet(userMap, interactions[i].userId)]
              itemIndices == [i \in 1..Len(interactions) |-> MapGet(itemMap, interactions[i].itemId)]
              numBatches == Ceil(Len(userIndices), config.batchSize)
              r0 == [NoRun EXCEPT !.userIndices = userIndices, !.itemIndices = itemIndices,
                                  !.numBatches = numBatches]
              tb == TrainBatch(r0, 0, 0, bc.model, dc.reg, num)
          IN /\ basicLossHistory' = << >>
             /\ deepLossHistory' = << >>
             /\ UNCHANGED <<dataVars, backend, lastCall>>
             /\ IF ~bc.ok
                THEN /\ calls' = Append(calls, Call("threw", "variable", "constructor"))
                     /\ isTraining' = TRUE
                     /\ registeredVariables' = bc.reg
                     /\ UNCHANGED <<basicModel, deepModel, run>>
                ELSE IF ~dc.ok
                THEN /\ calls' = Append(calls, Call("threw", "variable", "constructor"))
                     /\ isTraining' = TRUE
                     /\ registeredVariables' = dc.reg
                     /\ basicModel' = bc.model
                     /\ UNCHANGED <<deepModel, run>>
                ELSE IF config.epochs = 0 \/ numBatches = 0
                THEN /\ calls' = Append(calls, Call("completed", "none", "none"))
                     /\ isTraining' = FALSE
                     /\ registeredVariables' = dc.reg
                     /\ basicModel' = bc.model
                     /\ deepModel' = dc.model
                     /\ run' = r0
                ELSE /\ calls' = Append(calls,
                                   IF Rethrows(tb.res) THEN Call("threw", tb.res.error, "basic")
                                   ELSE Call("awaitBasic", "none", "none"))
                     /\ isTraining' = TRUE
                     /\ registeredVariables' = tb.res.reg
                     /\ basicModel' = [bc.model EXCEPT !.optimizer = tb.res.optimizer]
                     /\ deepModel' = dc.model
                     /\ run' = tb.run

\* the suspended invocation resumes after the await it is at
TrainResume(num) ==
  \E i \in 1..Len(calls) :
    /\ calls[i].pc \in Awaits
    /\ UNCHANGED <<dataVars, backend, lastCall>>
    /\ IF calls[i].pc = "awaitBasic"
       THEN \* line 228: deepModel.trainStep on the same batch
            LET res == DeepTrainStep(deepModel, registeredVariables, JsArray(run.batchUsers),
                                     JsArray(run.batchItems), JsArray(run.batchGenreFeatures), num)
            IN /\ registeredVariables' = res.reg
               /\ deepModel' = [deepModel EXCEPT !.optimizer = res.optimizer]
               /\ run' = [run EXCEPT !.deepLoss = res.value, !.step = Settled("deep", res)]
               /\ calls' = [calls EXCEPT ![i] =
                              IF Rethrows(res) THEN Call("threw", res.error, "deep")
                              ELSE Call("awaitDeep", "none", "none")]
               /\ UNCHANGED <<basicModel, basicLossHistory, deepLossHistory, isTraining>>
       ELSE IF calls[i].pc = "awaitDeep"
       THEN \* lines 230-242: both losses are recorded, then the timeout
            /\ basicLossHistory' = Append(basicLossHistory, run.basicLoss)
            /\ deepLossHistory' = Append(deepLossHistory, run.deepLoss)
            /\ calls' = [calls EXCEPT ![i] = Call("awaitTimeout", "none", "none")]
            /\ UNCHANGED <<modelVars, run, isTraining>>
       ELSE \* after the timeout: next batch, next epoch, or lines 250-257
            LET lastBatch == run.batch + 1 >= run.numBatches
                lastEpoch == run.epoch + 1 >= config.epochs
                tb == IF lastBatch
                      THEN TrainBatch(run, run.epoch + 1, 0, basicModel, registeredVariables, num)
                      ELSE TrainBatch(run, run.epoch, run.batch + 1, basicModel,
                                      registeredVariables, num)
            IN IF lastBatch /\ lastEpoch
               THEN /\ isTraining' = FALSE
                    /\ calls' = [calls EXCEPT ![i] = Call("completed", "none", "none")]
                    /\ UNCHANGED <<modelVars, run, basicLossHistory, deepLossHistory>>
               ELSE /\ run' = tb.run
                    /\ registeredVariables' = tb.res.reg
                    /\ basicModel' = [basicModel EXCEPT !.optimizer = tb.res.optimizer]
                    /\ calls' = [calls EXCEPT ![i] =
                                   IF Rethrows(tb.res) THEN Call("threw", tb.res.error, "basic")
                                   ELSE Call("awaitBasic", "none", "none")]
                    /\ UNCHANGED <<deepModel, basicLossHistory, deepLossHistory, isTraining>>

\* ------------------------------------------------------- the application
NoCall == [op |-> "none", model |-> "none", args |-> << >>, ok |-> TRUE,
           error |-> "none", value |-> << >>]

Configs == [maxInteractions : 0..MaxInteractions, batchSize : 1..MaxBatchSize,
            epochs : 1..MaxEpochs]

\* the state the MovieLensApp constructor leaves
Init ==
  /\ config \in Configs
  /\ interactions = << >>
  /\ userMap = EmptyMap
  /\ itemMap = EmptyMap
  /\ reverseItemMap = EmptyMap
  /\ genreMap = EmptyMap
  /\ genreList = << >>
  /\ basicModel = NullModel
  /\ deepModel = NullModel
  /\ basicLossHistory = << >>
  /\ deepLossHistory = << >>
  /\ isTraining = FALSE
  /\ calls = << >>
  /\ run = NoRun
  /\ loadPc = "idle"
  /\ registeredVariables = EmptyMap
  /\ backend \in Backends
  /\ lastCall = NoCall

Next ==
  \/ LoadDataStart
  \/ LoadDataItems
  \/ LoadDataError
  \/ \E seed \in Seeds, num \in StepNumerics : TrainInvoke(seed, num)
  \/ \E num \in StepNumerics : TrainResume(num)

Spec == Init /\ [][Next]_vars

\* ------------------------------------------------ the two models, directly
\* The model classes driven through their public methods, with batches that
\* the application would not form as well as those it would.
Indexes == 0..MaxTableRows

Batches == UNION {[1..n -> Indexes] : n \in 0..MaxBatchLen}

\* the item lists tried with a user list: as long as it, or one shorter
ItemsFor(users) == {users} \cup {SubSeq(users, 1, Len(users) - 1) : n \in {1} \cap DOMAIN users}

\* the genre rows passed along with a batch of items: one zero row per item,
\* or nothing
GenreInputs(items) == {JsArray([i \in 1..Len(items) |-> Zeros(NumGenres)]), JsUndefined}

Embeddings == {-1, 2}

ModelNames == {"basic", "deep"}

CallOf(op, model, args, res, value) ==
  [op |-> op, model |-> model, args |-> args, ok |-> res.ok, error |-> res.error,
   value |-> value]

InitApi ==
  /\ config = [maxInteractions |-> MaxInteractions, batchSize |-> MaxBatchSize,
               epochs |-> MaxEpochs]
  /\ interactions = << >>
  /\ userMap = EmptyMap
  /\ itemMap = EmptyMap
  /\ reverseItemMap = EmptyMap
  /\ genreMap = EmptyMap
  /\ genreList = << >>
  /\ basicLossHistory = << >>
  /\ deepLossHistory = << >>
  /\ isTraining = FALSE
  /\ calls = << >>
  /\ run = NoRun
  /\ loadPc = "idle"
  /\ backend \in Backends
  /\ lastCall = NoCall
  /\ \E numUsers \in 0..MaxTableRows, numItems \in 0..MaxTableRows :
       LET bc == BasicCtor(EmptyMap, numUsers, numItems, 0)
           dc == DeepCtor(bc.reg, numUsers, numItems, NumGenres, 0)
       IN /\ basicModel = bc.model
          /\ deepModel = dc.model
          /\ registeredVariables = dc.reg

ApiBasicTrainStep(users, items, num) ==
  /\ basicModel.optimizer.iterations < MaxSteps
  /\ \E res \in {BasicTrainStep(basicModel, registeredVariables, JsArray(users),
                                JsArray(items), num)} :
       /\ num \in NumericsOf(res)
       /\ registeredVariables' = res.reg
       /\ basicModel' = [basicModel EXCEPT !.optimizer = res.optimizer]
       /\ lastCall' = CallOf("trainStep", "basic", <<users, items>>, res, << >>)
  /\ UNCHANGED <<appVars, deepModel, backend>>

ApiDeepTrainStep(users, items, genreFeatures, num) ==
  /\ deepModel.optimizer.iterations < MaxSteps
  /\ \E res \in {DeepTrainStep(deepModel, registeredVariables, JsArray(users),
                               JsArray(items), genreFeatures, num)} :
       /\ num \in NumericsOf(res)
       /\ registeredVariables' = res.reg
       /\ deepModel' = [deepModel EXCEPT !.optimizer = res.optimizer]
       /\ lastCall' = CallOf("trainStep", "deep", <<users, items>>, res, << >>)
  /\ UNCHANGED <<appVars, basicModel, backend>>

ApiGetUserEmbedding(name, userIndex) ==
  /\ \E res \in {IF name = "basic"
                 THEN BasicGetUserEmbedding(basicModel, registeredVariables, userIndex)
                 ELSE DeepGetUserEmbedding(deepModel, registeredVariables, userIndex)} :
       /\ registeredVariables' = res.reg
       /\ lastCall' = CallOf("getUserEmbedding", name, <<userIndex>>, res, <<res.value>>)
  /\ UNCHANGED <<appVars, basicModel, deepModel, backend>>

\* chunk is the constant batchSize of DeepTwoTowerModel.getScoresForAllItems;
\* the basic model scores all items in one product
ApiGetScoresForAllItems(name, userEmbedding, chunk) ==
  /\ \E res \in {IF name = "basic"
                 THEN BasicGetScoresForAllItems(basicModel, registeredVariables,
                                                userEmbedding)
                 ELSE DeepGetScoresForAllItems(deepModel, registeredVariables,
                                               userEmbedding, chunk)} :
       /\ registeredVariables' = res.reg
       /\ lastCall' = CallOf("getScoresForAllItems", name,
                             IF name = "basic" THEN <<userEmbedding>>
                             ELSE <<userEmbedding, chunk>>, res, res.value)
  /\ UNCHANGED <<appVars, basicModel, deepModel, backend>>

NextApi ==
  \/ \E users \in Batches, num \in StepNumerics \cup {NoNumerics} :
       \E items \in ItemsFor(users) : ApiBasicTrainStep(users, items, num)
  \/ \E users \in Batches, num \in StepNumerics \cup {NoNumerics} :
       \E items \in ItemsFor(users) : \E genreFeatures \in GenreInputs(items) :
         ApiDeepTrainStep(users, items, genreFeatures, num)
  \/ \E name \in ModelNames, userIndex \in Indexes : ApiGetUserEmbedding(name, userIndex)
  \/ \E name \in ModelNames, userEmbedding \in Embeddings, chunk \in 1..MaxChunk :
       ApiGetScoresForAllItems(name, userEmbedding, chunk)

SpecApi == InitApi /\ [][NextApi]_vars

\* ================================================================ properties
\* ---- the training driver (Spec)
Suspended == \E i \in 1..Len(calls) : calls[i].pc \in Awaits

\* C1: a train() invocation made while a run is suspended at any of its
\* awaits returns at once: it is recorded as returned, no earlier invocation
\* is disturbed, neither model is created or replaced, no variable is
\* registered or updated, neither loss history is cleared and no batch is
\* formed or stepped.
C1_ConcurrentTrainRejected ==
  [][(Len(calls') = Len(calls) + 1 /\ Suspended)
       => /\ calls'[Len(calls')].pc = "returned"
          /\ SubSeq(calls', 1, Len(calls)) = calls
          /\ UNCHANGED <<basicModel, deepModel, registeredVariables, basicLossHistory,
                         deepLossHistory, run, isTraining>>]_vars

\* a run is suspended after its basic step and a later invocation has returned
C1_Witness ==
  \E i \in 1..Len(calls) : \E j \in 1..Len(calls) :
    /\ i < j
    /\ calls[i].pc = "awaitBasic"
    /\ calls[j].pc = "returned"
    /\ basicModel.optimizer.iterations = 1

RunEnded == ~Suspended /\ run.numBatches > 0

\* the run's index lists were built from loaded data: every id had an index
RunOnLoadedData ==
  \A i \in 1..Len(run.userIndices) :
    run.userIndices[i] # Undefined /\ run.itemIndices[i] # Undefined

\* C3 (as claimed): every batch is the slice [batch * batchSize,
\* min(start + batchSize, n)) of the index lists, and a run on loaded data
\* that has ended has formed the last batch of the last epoch, so that every
\* interaction was in exactly one batch of every epoch.
C3_BatchesCoverEveryInteraction ==
  /\ run.start = run.batch * config.batchSize
  /\ run.end = Min(run.start + config.batchSize, Len(run.userIndices))
  /\ run.batchUsers = SubSeq(run.userIndices, run.start + 1, run.end)
  /\ run.batchItems = SubSeq(run.itemIndices, run.start + 1, run.end)
  /\ Len(run.batchGenreFeatures) = Len(run.batchItems)
  /\ (RunEnded /\ RunOnLoadedData)
       => /\ run.epoch = config.epochs - 1
          /\ run.batch = run.numBatches - 1
          /\ run.end = Len(run.userIndices)

BetweenBatches == \A i \in 1..Len(calls) : calls[i].pc \notin {"awaitBasic", "awaitDeep"}

StepsExecuted(model) == IF model.isNull THEN 0 ELSE model.optimizer.iterations

\* C4 (as claimed): between the batches of a run on loaded data each loss
\* history holds one value per batch step its model has executed, the two
\* histories are equally long, and a completed run leaves
\* epochs * ceil(n / batchSize) values in each.
C4_OneLossPerBatchStep ==
  /\ (BetweenBatches /\ RunOnLoadedData)
       => /\ Len(basicLossHistory) = StepsExecuted(basicModel)
          /\ Len(deepLossHistory) = StepsExecuted(deepModel)
          /\ Len(basicLossHistory) = Len(deepLossHistory)
  /\ \A i \in 1..Len(calls) :
       calls[i].pc = "completed"
         => /\ Len(basicLossHistory) = config.epochs * Ceil(Len(run.userIndices), config.batchSize)
            /\ Len(deepLossHistory) = config.epochs * Ceil(Len(run.userIndices), config.batchSize)

\* C8: once a trainStep of a run was rejected, the invocation is not
\* suspended any more (it threw), the step that failed appended no loss, and
\* from then on no batch is formed, no model or variable changes and no loss
\* is appended.
C8_FailedStepAbortsRun ==
  [][/\ ~run'.step.ok => \A i \in 1..Len(calls') : calls'[i].pc \notin Awaits
     /\ (run.step.ok /\ ~run'.step.ok)
          => /\ Len(basicLossHistory') <= Len(basicLossHistory)
             /\ Len(deepLossHistory') <= Len(deepLossHistory)
     /\ ~run.step.ok
          => UNCHANGED <<run, basicModel, deepModel, registeredVariables,
                         basicLossHistory, deepLossHistory>>]_vars

\* the deep step of a batch was rejected, the invocation threw, and train()
\* was called again afterwards
C8_Witness ==
  /\ ~run.step.ok
  /\ run.step.model = "deep"
  /\ \E i \in 1..Len(calls) : \E j \in 1..Len(calls) :
       i < j /\ calls[i].pc = "threw" /\ calls[i].at = "deep"

\* C10 (as claimed): the deep item tower, given the items of a batch of
\* loaded data and a zero row of width genreList.length for every item
\* without a genre entry, does not fail: no invocation throws out of the item
\* tower's feature tensor.
C10_ItemTowerAcceptsZeroFeatures ==
  RunOnLoadedData
    => \A i \in 1..Len(calls) :
         ~(calls[i].pc = "threw" /\ calls[i].at = "deep" /\ calls[i].error = "tensor2d")

\* ---- the two models (SpecApi)
ModelOf(name) == IF name = "basic" THEN basicModel ELSE deepModel

InBatch(batch, r) == \E i \in 1..Len(batch) : ToInt32(batch[i]) = r

FirstMomentOf(model, name, r) ==
  MomentsOf(model.optimizer, name, registeredVariables[name]).m[r]

\* the rows of table `name` outside `batch` keep their values over the step
RowsOutsideKept(name, batch) ==
  \A r \in DOMAIN registeredVariables[name] :
    ~InBatch(batch, r) => registeredVariables'[name][r] = registeredVariables[name][r]

\* the same, for the rows Adam holds no momentum for
RestingRowsOutsideKept(model, name, batch) ==
  \A r \in DOMAIN registeredVariables[name] :
    (~InBatch(batch, r) /\ FirstMomentOf(model, name, r) = 0)
      => registeredVariables'[name][r] = registeredVariables[name][r]

\* C5 (as claimed): over any trainStep, every row of the model's user table
\* whose index is not in the batch's user list, and every row of its item
\* table whose index is not in the batch's item list, keeps its value.
C5_UntouchedRowsUnchanged ==
  [][lastCall'.op = "trainStep"
       => /\ RowsOutsideKept(ModelOf(lastCall'.model).userEmbeddings, lastCall'.args[1])
          /\ RowsOutsideKept(ModelOf(lastCall'.model).itemEmbeddings, lastCall'.args[2])]_vars

\* C5 (amended): over any trainStep, every row outside the batch for which
\* the optimizer's first moment is zero before the step (no earlier step of
\* this model gave it a gradient) keeps its value; a row an earlier step
\* moved may keep moving.
C5_RestingRowsUnchanged ==
  [][lastCall'.op = "trainStep"
       => /\ RestingRowsOutsideKept(ModelOf(lastCall'.model),
                                    ModelOf(lastCall'.model).userEmbeddings, lastCall'.args[1])
          /\ RestingRowsOutsideKept(ModelOf(lastCall'.model),
                                    ModelOf(lastCall'.model).itemEmbeddings, lastCall'.args[2])]_vars

\* the second successful step of the basic model has just run, its batch
\* moved a user row, and another user row has never been given a gradient
C5_Witness ==
  /\ lastCall.op = "trainStep" /\ lastCall.model = "basic" /\ lastCall.ok
  /\ basicModel.optimizer.iterations = 2
  /\ \E r \in DOMAIN registeredVariables[basicModel.userEmbeddings] :
       /\ ~InBatch(lastCall.args[1], r)
       /\ FirstMomentOf(basicModel, basicModel.userEmbeddings, r) = 0
  /\ \E r \in DOMAIN registeredVariables[basicModel.userEmbeddings] :
       /\ InBatch(lastCall.args[1], r)
       /\ FirstMomentOf(basicModel, basicModel.userEmbeddings, r) # 0

OutOfRange(batch, n) == \E i \in 1..Len(batch) : batch[i] \notin 0..(n - 1)

\* empty, of different lengths, or with an index outside its table
Malformed(model, users, items) ==
  \/ users = << >>
  \/ Len(users) # Len(items)
  \/ OutOfRange(users, model.numUsers)
  \/ OutOfRange(items, model.numItems)

\* C6 (as claimed): a trainStep on a malformed batch fails, and every
\* variable registered before the call and both optimizers are as before it
\* (stated for models whose tables have rows).
C6_MalformedBatchRejected ==
  [][(lastCall'.op = "trainStep"
        /\ ModelOf(lastCall'.model).numUsers > 0
        /\ ModelOf(lastCall'.model).numItems > 0
        /\ Malformed(ModelOf(lastCall'.model), lastCall'.args[1], lastCall'.args[2]))
       => /\ ~lastCall'.ok
          /\ \A name \in DOMAIN registeredVariables :
               registeredVariables'[name] = registeredVariables[name]
          /\ basicModel'.optimizer = basicModel.optimizer
          /\ deepModel'.optimizer = deepModel.optimizer]_vars

\* the score of the single item k against userEmbedding, by the item tower
ItemScore(name, k, userEmbedding) ==
  IF name = "basic"
  THEN BasicItemForward(basicModel, registeredVariables, JsArray(<<k>>))[1] * userEmbedding
  ELSE DeepItemForward(deepModel, registeredVariables, JsArray(<<k>>),
                       JsArray(<<Zeros(deepModel.numGenres)>>)).vals[1] * userEmbedding

\* C7: getScoresForAllItems succeeds, returns numItems scores, and its entry
\* k is the score of item k, whatever the chunk size.
C7_ScoresInIndexOrder ==
  lastCall.op = "getScoresForAllItems"
    => /\ lastCall.ok
       /\ Len(lastCall.value) = ModelOf(lastCall.model).numItems
       /\ \A k \in 0..(ModelOf(lastCall.model).numItems - 1) :
            lastCall.value[k + 1] = ItemScore(lastCall.model, k, lastCall.args[1])

\* the deep model scored two items in two chunks of one, with different scores
C7_Witness ==
  /\ lastCall.op = "getScoresForAllItems" /\ lastCall.model = "deep"
  /\ lastCall.args[2] = 1
  /\ Len(lastCall.value) = 2
  /\ lastCall.value[1] # lastCall.value[2]

InferenceOps == {"getUserEmbedding", "getScoresForAllItems"}

C11_GuardReleasedAfterRun ==
  (~Suspended /\ RunOnLoadedData) => isTraining = FALSE

\* a batch has been formed and passed to basicModel.trainStep
BatchPassed == run.numBatches > 0

IndexesIn(batch, n) == \A i \in 1..Len(batch) : batch[i] \in 0..(n - 1)

\* the batch the run last passed on: not empty, its three lists equally
\* long, every index a row of the tables of both models built for the run
WellFormedBatch ==
  /\ run.batchUsers # << >>
  /\ Len(run.batchItems) = Len(run.batchUsers)
  /\ Len(run.batchGenreFeatures) = Len(run.batchUsers)
  /\ IndexesIn(run.batchUsers, basicModel.numUsers)
  /\ IndexesIn(run.batchUsers, deepModel.numUsers)
  /\ IndexesIn(run.batchItems, basicModel.numItems)
  /\ IndexesIn(run.batchItems, deepModel.numItems)

\* C12 (as claimed): every batch train() passes to trainStep is well-formed.
C12_EveryBatchWellFormed == BatchPassed => WellFormedBatch

\* C12 (amended): every batch passed to trainStep by a run that began when
\* the mappings held every user and item id of the interaction list (after
\* loadData had run createMappings on it) is well-formed.
C12_LoadedBatchWellFormed == (BatchPassed /\ RunOnLoadedData) => WellFormedBatch

\* a batch of three interactions of three users and two items, one of the
\* items without genre entry, was passed to both models
C12_Witness ==
  /\ BatchPassed /\ RunOnLoadedData
  /\ Len(run.batchUsers) = 3
  /\ run.batchUsers[3] = basicModel.numUsers - 1
  /\ run.batchItems[3] = basicModel.numItems - 1
  /\ run.batchGenreFeatures[3] = Zeros(Len(genreList))
  /\ \E i \in 1..Len(calls) : calls[i].at = "deep"

====
